---- MODULE Spec2Model ----
(***************************************************************************)
(* Spinner.spin of spinner.py: one supervising process that forks a child, *)
(* polls it with waitpid while drawing a spinner, forwards SIGINT, SIGTERM *)
(* and SIGQUIT to it, escalates SIGTERM -> SIGKILL on timeout and turns    *)
(* the wait status into an exit code.  Each action is one statement (or    *)
(* one straight-line group of statements) of spin; signal delivery, the    *)
(* passing of time and the child's own steps interleave with them.         *)
(***************************************************************************)
EXTENDS Integers, Sequences, FiniteSets, TLC

VARIABLES
    pc,               \* the statement of spin the supervisor is about to run
    i,                \* spin: i, the glyph counter
    interrupted,      \* spin: interrupted (nonlocal of sig_handler)
    signal_received,  \* spin: signal_received (nonlocal of sig_handler)
    signal_name,      \* spin: signal_name
    status,           \* spin: status, the wait status of the last reaping waitpid
    ret,              \* the value spin returns
    handler,          \* the process's handler of each of SIGINT, SIGTERM, SIGQUIT
    old,              \* spin: old_sigint, old_sigterm, old_sigquit
    prev,             \* the handlers installed when spin was called
    out,              \* what was written to standard output, in order
    err,              \* what the supervisor wrote to standard error, in order
    has_max,          \* self.max_duration is not None
    expired,          \* monotonic() - start >= self.max_duration
    cpc,              \* the child process: where it is
    cstatus,          \* the wait status the kernel holds for the terminated child
    cause,            \* how the child terminated
    pending,          \* signals sent to the child it has not yet reacted to
    cerr,             \* what the child wrote to standard error before exec
    sent,             \* the signals the supervisor sent to the live or zombie child
    stale,            \* kill() calls of the supervisor made after the child was reaped
    delivered,        \* the signals delivered to the supervisor, in order
    expiredAtEnd      \* whether the maximum duration had elapsed when the child terminated

vars == <<pc, i, interrupted, signal_received, signal_name, status, ret, handler,
          old, prev, out, err, has_max, expired, cpc, cstatus, cause, pending,
          cerr, sent, stale, delivered, expiredAtEnd>>

-----------------------------------------------------------------------------
(* Bounds of the model. *)

\* loop iterations that draw a glyph
MaxTicks == 2
\* signals delivered to the supervisor during one call
MaxSignals == 2

-----------------------------------------------------------------------------
(* Program constants. *)

SIGINT == 2
SIGQUIT == 3
SIGKILL == 9
SIGTERM == 15

\* Python's None, for signal_received
None == 0

\* the signals spin installs sig_handler for
Handled == {SIGINT, SIGTERM, SIGQUIT}

\* A previous handler, as signal() returns it (_HANDLER), is one of "SIG_DFL",
\* "SIG_IGN", "callable" (a Python function) and "NotPython" (None: a handler
\* that was not installed from Python).

\* the glyphs of spinner, in order: - BACKSLASH | /
spinner == <<"-", "BACKSLASH", "|", "/">>

HideSeq == "ESC[?25l"
ShowSeq == "ESC[?25h"

\* the handlers of SIGINT, SIGTERM and SIGQUIT when spin is called
Cfg(a, b, c) ==
    [s \in Handled |-> IF s = SIGINT THEN a ELSE IF s = SIGTERM THEN b ELSE c]

\* the first is the state CPython starts in (default_int_handler for SIGINT);
\* over the three, every signal meets three kinds of previous handler
PrevConfigs ==
    { Cfg("callable", "SIG_DFL", "SIG_DFL"),
      Cfg("SIG_IGN", "NotPython", "callable"),
      Cfg("SIG_DFL", "callable", "SIG_IGN") }

\* exit codes the command passes to exit in the full model
ExitCodes == {0, 1}

\* signals that something other than the supervisor sends to the child
SIGSEGV == 11
ExtSignals == {SIGSEGV}

\* every exit code and every signal number, for the runs without deliveries
AllExitCodes == 0 .. 255
AllSignals == 1 .. 64

\* signals whose default action may leave a core dump (bit 0x80 of the status)
CoreSignals == {SIGQUIT, 4, 5, 6, 7, 8, SIGSEGV, 24, 25, 31}

\* where spin has ended: returned a value, left by an exception, or the whole
\* supervising process was terminated by a signal with the default disposition
Final == {"returned", "raised", "killed"}

-----------------------------------------------------------------------------
(* The wait status, as waitpid reports it and the os.W* functions decode it. *)

StatusExited(c) == (c % 256) * 256
StatusSignaled(n, core) == n + (IF core THEN 128 ELSE 0)

WIFEXITED(st) == (st % 128) = 0
WEXITSTATUS(st) == (st \div 256) % 256
WIFSIGNALED(st) == (st % 128) # 0 /\ (st % 128) # 127
WTERMSIG(st) == st % 128

\* lines 137-138 returning the raw status instead of WEXITSTATUS(status)
Translate_RawExit(st) ==
    IF WIFEXITED(st) THEN st
    ELSE IF WIFSIGNALED(st) THEN 128 + WTERMSIG(st)
    ELSE 128

\* lines 139-141 returning WTERMSIG(status) without the 128 offset
Translate_NoOffset(st) ==
    IF WIFEXITED(st) THEN WEXITSTATUS(st)
    ELSE IF WIFSIGNALED(st) THEN WTERMSIG(st)
    ELSE 128

\* lines 137-143
Translate(st) ==
    IF WIFEXITED(st) THEN WEXITSTATUS(st)
    ELSE IF WIFSIGNALED(st) THEN 128 + WTERMSIG(st)
    ELSE 128

\* lines 94-102: signal_names.get(signal_received, f"signal {signal_received}")
SignalName(s) ==
    IF s = SIGINT THEN "SIGINT"
    ELSE IF s = SIGTERM THEN "SIGTERM"
    ELSE IF s = SIGQUIT THEN "SIGQUIT"
    ELSE "signal"

ChildAlive == cpc \in {"execvp", "except", "image"}

-----------------------------------------------------------------------------
Init ==
    /\ pc = "print_wait"
    /\ i = 0
    /\ interrupted = FALSE
    /\ signal_received = None
    /\ signal_name = ""
    /\ status = 0
    /\ ret = -1
    /\ prev \in PrevConfigs
    /\ handler = prev
    /\ old = [s \in Handled |-> "unset"]
    /\ out = <<>>
    /\ err = <<>>
    /\ has_max \in BOOLEAN
    /\ expired = FALSE
    /\ cpc = "none"
    /\ cstatus = 0
    /\ cause = ""
    /\ pending = {}
    /\ cerr = <<>>
    /\ sent = <<>>
    /\ stale = 0
    /\ delivered = <<>>
    /\ expiredAtEnd = FALSE


-----------------------------------------------------------------------------
(* Groups of variables, for UNCHANGED. *)

locals == <<i, interrupted, signal_received, signal_name, status, ret>>
sigs   == <<handler, old, prev>>
clock  == <<has_max, expired>>
child  == <<cpc, cstatus, cause, pending, cerr, expiredAtEnd>>
hist   == <<sent, stale, delivered>>

-----------------------------------------------------------------------------
(* kill(pid, s) by the supervisor.  A child that is running gets s pending; *)
(* a zombie absorbs it; after the child was reaped the pid names no child   *)
(* of the supervisor any more (ProcessLookupError, or another process).     *)

Kill(s) ==
    IF cpc = "reaped"
    THEN /\ stale' = stale + 1
         /\ UNCHANGED <<sent, pending>>
    ELSE /\ sent' = Append(sent, s)
         /\ pending' = IF ChildAlive THEN pending \cup {s} ELSE pending
         /\ UNCHANGED stale

(* waitpid reporting the terminated child: the kernel frees it, status is set *)
Reap ==
    /\ cpc' = "reaped"
    /\ status' = cstatus

-----------------------------------------------------------------------------
(* spin, lines 49-82: before the polling loop. *)

\* line 49 with line 50 left out: the cursor is not hidden
PrintWait_ToFork ==
    /\ pc = "print_wait"
    /\ out' = Append(out, "wait_text")
    /\ pc' = "fork"
    /\ UNCHANGED <<locals, sigs, err, clock, child, hist>>

\* line 49
PrintWait ==
    /\ pc = "print_wait"
    /\ out' = Append(out, "wait_text")
    /\ pc' = "hide_cursor"
    /\ UNCHANGED <<locals, sigs, err, clock, child, hist>>

\* line 50, _hide_cursor
HideCursor ==
    /\ pc = "hide_cursor"
    /\ out' = Append(out, HideSeq)
    /\ pc' = "fork"
    /\ UNCHANGED <<locals, sigs, err, clock, child, hist>>

\* lines 52, 62-66 in the parent: fork() returns the child's pid
Fork ==
    /\ pc = "fork"
    /\ cpc' = "execvp"
    /\ i' = 0
    /\ interrupted' = FALSE
    /\ signal_received' = None
    /\ pc' = "install_sigint"
    /\ UNCHANGED <<signal_name, status, ret, sigs, out, err, clock, cstatus,
                   cause, pending, cerr, expiredAtEnd, hist>>

\* line 52: fork() raises OSError (no process created); nothing catches it
ForkFails ==
    /\ pc = "fork"
    /\ pc' = "raised"
    /\ UNCHANGED <<locals, sigs, out, err, clock, child, hist>>

\* old_x = signal(s, sig_handler)
Install(s, next) ==
    /\ old' = [old EXCEPT ![s] = handler[s]]
    /\ handler' = [handler EXCEPT ![s] = "sig_handler"]
    /\ pc' = next
    /\ UNCHANGED <<locals, prev, out, err, clock, child, hist>>

\* line 80
InstallSigint == pc = "install_sigint" /\ Install(SIGINT, "install_sigterm")
\* line 81
InstallSigterm == pc = "install_sigterm" /\ Install(SIGTERM, "install_sigquit")
\* line 82
InstallSigquit == pc = "install_sigquit" /\ Install(SIGQUIT, "loop")

-----------------------------------------------------------------------------
(* spin, lines 85-109: the head of an iteration and the interrupted path. *)

\* line 87
CheckInterrupted ==
    /\ pc = "loop"
    /\ pc' = IF interrupted THEN "int_sleep" ELSE "poll"
    /\ UNCHANGED <<locals, sigs, out, err, clock, child, hist>>

\* line 89
IntSleep ==
    /\ pc = "int_sleep"
    /\ pc' = "int_wait"
    /\ UNCHANGED <<locals, sigs, out, err, clock, child, hist>>

\* line 91 as a non-blocking wait that goes on with the iteration when the
\* child is still running
IntWait_NoHang ==
    /\ pc = "int_wait"
    /\ IF cpc = "zombie"
       THEN /\ Reap
            /\ pc' = "int_check"
       ELSE /\ pc' = "timeout_check"
            /\ UNCHANGED <<cpc, status>>
    /\ UNCHANGED <<i, interrupted, signal_received, signal_name, ret, sigs, out,
                   err, clock, cstatus, cause, pending, cerr, expiredAtEnd, hist>>

\* line 91: waitpid(pid, 0) returns once the child has terminated
IntWait ==
    /\ pc = "int_wait"
    /\ cpc = "zombie"
    /\ Reap
    /\ pc' = "int_check"
    /\ UNCHANGED <<i, interrupted, signal_received, signal_name, ret, sigs, out,
                   err, clock, cstatus, cause, pending, cerr, expiredAtEnd, hist>>

\* line 93, and lines 107-109 when no number was recorded
IntCheck ==
    /\ pc = "int_check"
    /\ IF signal_received # None
       THEN /\ pc' = "int_name"
            /\ UNCHANGED <<err, ret>>
       ELSE /\ err' = Append(err, "Interrupted.")
            /\ ret' = 130
            /\ pc' = "restore_sigint"
    /\ UNCHANGED <<i, interrupted, signal_received, signal_name, status, sigs,
                   out, clock, child, hist>>

\* lines 94-102
IntName ==
    /\ pc = "int_name"
    /\ signal_name' = SignalName(signal_received)
    /\ pc' = "int_print"
    /\ UNCHANGED <<i, interrupted, signal_received, status, ret, sigs, out, err,
                   clock, child, hist>>

\* line 103
IntPrint ==
    /\ pc = "int_print"
    /\ err' = Append(err, "Interrupted by " \o signal_name \o ".")
    /\ pc' = "int_return"
    /\ UNCHANGED <<locals, sigs, out, clock, child, hist>>

\* line 106
IntReturn ==
    /\ pc = "int_return"
    /\ ret' = 128 + signal_received
    /\ pc' = "restore_sigint"
    /\ UNCHANGED <<i, interrupted, signal_received, signal_name, status, sigs,
                   out, err, clock, child, hist>>

-----------------------------------------------------------------------------
(* spin, lines 111-134: the poll, the timeout path and the glyph. *)

\* lines 111-118 with the timeout check placed before the use of the wait's
\* result: a child found terminated is not reported when the time is up
Poll_TimeoutFirst ==
    /\ pc = "poll"
    /\ IF cpc = "zombie" /\ ~(has_max /\ expired)
       THEN /\ Reap
            /\ pc' = "translate"
       ELSE /\ pc' = "timeout_check"
            /\ UNCHANGED <<cpc, status>>
    /\ UNCHANGED <<i, interrupted, signal_received, signal_name, ret, sigs, out,
                   err, clock, cstatus, cause, pending, cerr, expiredAtEnd, hist>>

\* lines 111-113 without the break: the terminated child is reported and the
\* loop goes on, to wait on the pid again
Poll_NoBreak ==
    /\ pc = "poll"
    /\ IF cpc = "zombie"
       THEN Reap
       ELSE UNCHANGED <<cpc, status>>
    /\ pc' = "timeout_check"
    /\ UNCHANGED <<i, interrupted, signal_received, signal_name, ret, sigs, out,
                   err, clock, cstatus, cause, pending, cerr, expiredAtEnd, hist>>

\* lines 111-113: waitpid(pid, WNOHANG); break when the child has terminated
Poll ==
    /\ pc = "poll"
    /\ IF cpc = "zombie"
       THEN /\ Reap
            /\ pc' = "translate"
       ELSE /\ pc' = "timeout_check"
            /\ UNCHANGED <<cpc, status>>
    /\ UNCHANGED <<i, interrupted, signal_received, signal_name, ret, sigs, out,
                   err, clock, cstatus, cause, pending, cerr, expiredAtEnd, hist>>

\* lines 115-116
TimeoutCheck ==
    /\ pc = "timeout_check"
    /\ pc' = IF has_max /\ expired THEN "to_print" ELSE "glyph"
    /\ UNCHANGED <<locals, sigs, out, err, clock, child, hist>>

\* line 117
ToPrint ==
    /\ pc = "to_print"
    /\ err' = Append(err, "Process timed out.")
    /\ pc' = "to_term"
    /\ UNCHANGED <<locals, sigs, out, clock, child, hist>>

\* line 118 sending SIGKILL at once instead of SIGTERM
ToTerm_Kill ==
    /\ pc = "to_term"
    /\ Kill(SIGKILL)
    /\ pc' = "to_sleep"
    /\ UNCHANGED <<locals, sigs, out, err, clock, cpc, cstatus, cause, cerr,
                   expiredAtEnd, delivered>>

\* line 118
ToTerm ==
    /\ pc = "to_term"
    /\ Kill(SIGTERM)
    /\ pc' = "to_sleep"
    /\ UNCHANGED <<locals, sigs, out, err, clock, cpc, cstatus, cause, cerr,
                   expiredAtEnd, delivered>>

\* line 120
ToSleep ==
    /\ pc = "to_sleep"
    /\ pc' = "to_recheck"
    /\ UNCHANGED <<locals, sigs, out, err, clock, child, hist>>

\* lines 122-123
ToRecheck ==
    /\ pc = "to_recheck"
    /\ IF cpc = "zombie"
       THEN /\ Reap
            /\ pc' = "to_return"
       ELSE /\ pc' = "to_kill"
            /\ UNCHANGED <<cpc, status>>
    /\ UNCHANGED <<i, interrupted, signal_received, signal_name, ret, sigs, out,
                   err, clock, cstatus, cause, pending, cerr, expiredAtEnd, hist>>

\* line 125 sending SIGTERM a second time instead of SIGKILL
ToKill_Term ==
    /\ pc = "to_kill"
    /\ Kill(SIGTERM)
    /\ pc' = "to_wait"
    /\ UNCHANGED <<locals, sigs, out, err, clock, cpc, cstatus, cause, cerr,
                   expiredAtEnd, delivered>>

\* line 125
ToKill ==
    /\ pc = "to_kill"
    /\ Kill(SIGKILL)
    /\ pc' = "to_wait"
    /\ UNCHANGED <<locals, sigs, out, err, clock, cpc, cstatus, cause, cerr,
                   expiredAtEnd, delivered>>

\* line 126 left out: SIGKILL is sent and spin returns without waiting
ToWait_NoWait ==
    /\ pc = "to_wait"
    /\ pc' = "to_return"
    /\ UNCHANGED <<locals, sigs, out, err, clock, child, hist>>

\* line 126: waitpid(pid, 0)
ToWait ==
    /\ pc = "to_wait"
    /\ cpc = "zombie"
    /\ Reap
    /\ pc' = "to_return"
    /\ UNCHANGED <<i, interrupted, signal_received, signal_name, ret, sigs, out,
                   err, clock, cstatus, cause, pending, cerr, expiredAtEnd, hist>>

\* line 129 returning the translated status of the child instead of 124
ToReturn_Status ==
    /\ pc = "to_return"
    /\ ret' = Translate(status)
    /\ pc' = "restore_sigint"
    /\ UNCHANGED <<i, interrupted, signal_received, signal_name, status, sigs,
                   out, err, clock, child, hist>>

\* line 129
ToReturn ==
    /\ pc = "to_return"
    /\ ret' = 124
    /\ pc' = "restore_sigint"
    /\ UNCHANGED <<i, interrupted, signal_received, signal_name, status, sigs,
                   out, err, clock, child, hist>>

\* line 131
Glyph ==
    /\ pc = "glyph"
    /\ i < MaxTicks
    /\ out' = Append(out, spinner[(i % Len(spinner)) + 1])
    /\ pc' = "tick_sleep"
    /\ UNCHANGED <<locals, sigs, err, clock, child, hist>>

\* line 132
TickSleep ==
    /\ pc = "tick_sleep"
    /\ pc' = "erase"
    /\ UNCHANGED <<locals, sigs, out, err, clock, child, hist>>

\* lines 133-134
Erase ==
    /\ pc = "erase"
    /\ out' = Append(out, "BS")
    /\ i' = i + 1
    /\ pc' = "loop"
    /\ UNCHANGED <<interrupted, signal_received, signal_name, status, ret, sigs,
                   err, clock, child, hist>>

-----------------------------------------------------------------------------
(* spin, lines 136-151: the translation of the status and the finally block. *)

\* lines 137-143
TranslateStatus ==
    /\ pc = "translate"
    /\ ret' = Translate(status)
    /\ pc' = "restore_sigint"
    /\ UNCHANGED <<i, interrupted, signal_received, signal_name, status, sigs,
                   out, err, clock, child, hist>>

\* lines 147-149 resetting the handler to SIG_DFL instead of the saved one
Restore_Default(s, next) ==
    /\ handler' = [handler EXCEPT ![s] = "SIG_DFL"]
    /\ pc' = next
    /\ UNCHANGED <<locals, old, prev, out, err, clock, child, hist>>

\* signal(s, old_x): a previous handler that was not installed from Python is
\* None, which signal() refuses with TypeError; the exception leaves the
\* finally block and spin
Restore(s, next) ==
    /\ IF old[s] = "NotPython"
       THEN /\ pc' = "raised"
            /\ UNCHANGED handler
       ELSE /\ handler' = [handler EXCEPT ![s] = old[s]]
            /\ pc' = next
    /\ UNCHANGED <<locals, old, prev, out, err, clock, child, hist>>

\* line 147
RestoreSigint == pc = "restore_sigint" /\ Restore(SIGINT, "restore_sigterm")
\* line 148
RestoreSigterm == pc = "restore_sigterm" /\ Restore(SIGTERM, "restore_sigquit")
\* line 149
RestoreSigquit == pc = "restore_sigquit" /\ Restore(SIGQUIT, "show_cursor")

\* line 150, _show_cursor
ShowCursor ==
    /\ pc = "show_cursor"
    /\ out' = Append(out, ShowSeq)
    /\ pc' = "newline"
    /\ UNCHANGED <<locals, sigs, err, clock, child, hist>>

\* line 151, then the return of the value computed before the finally block
Newline ==
    /\ pc = "newline"
    /\ out' = Append(out, "NL")
    /\ pc' = "returned"
    /\ UNCHANGED <<locals, sigs, err, clock, child, hist>>

-----------------------------------------------------------------------------
(* Signals delivered to the supervising process.  Python runs a handler     *)
(* between two statements of the main thread, so a delivery is one step     *)
(* that can come before any statement of spin.  A signal whose disposition  *)
(* is SIG_IGN is discarded by the kernel and is no delivery.                *)

\* lines 68-77 keeping the first recorded number instead of overwriting it
SigHandler_FirstOnly(s) ==
    /\ interrupted' = TRUE
    /\ signal_received' = IF signal_received = None THEN s ELSE signal_received
    /\ Kill(s)

\* lines 68-77, sig_handler
SigHandler(s) ==
    /\ interrupted' = TRUE
    /\ signal_received' = s
    /\ Kill(s)

CanDeliver == pc \notin Final /\ Len(delivered) < MaxSignals

\* lines 68-77 with the send outside the try: ProcessLookupError leaves the
\* handler and, the finally block not being around the frame it interrupts
\* in general, spin
DeliverHandled_NoCatch(s) ==
    /\ CanDeliver
    /\ handler[s] = "sig_handler"
    /\ delivered' = Append(delivered, s)
    /\ SigHandler(s)
    /\ pc' = IF cpc = "reaped" THEN "raised" ELSE pc
    /\ UNCHANGED <<i, signal_name, status, ret, sigs, out, err, clock, cpc,
                   cstatus, cause, cerr, expiredAtEnd>>

\* sig_handler is installed for s
DeliverHandled(s) ==
    /\ CanDeliver
    /\ handler[s] = "sig_handler"
    /\ delivered' = Append(delivered, s)
    /\ SigHandler(s)
    /\ UNCHANGED <<pc, i, signal_name, status, ret, sigs, out, err, clock, cpc,
                   cstatus, cause, cerr, expiredAtEnd>>

\* the default disposition of SIGINT, SIGTERM and SIGQUIT ends the process
DeliverDefault(s) ==
    /\ CanDeliver
    /\ handler[s] = "SIG_DFL"
    /\ delivered' = Append(delivered, s)
    /\ pc' = "killed"
    /\ UNCHANGED <<locals, sigs, out, err, clock, child, sent, stale>>

\* the caller's own handler runs and returns
DeliverOld(s) ==
    /\ CanDeliver
    /\ handler[s] \in {"callable", "NotPython"}
    /\ delivered' = Append(delivered, s)
    /\ UNCHANGED <<pc, locals, sigs, out, err, clock, child, sent, stale>>

\* the caller's own handler raises (default_int_handler: KeyboardInterrupt);
\* it is only installed outside the try body, so the exception leaves spin
DeliverOldRaises(s) ==
    /\ CanDeliver
    /\ handler[s] = "callable"
    /\ delivered' = Append(delivered, s)
    /\ pc' = "raised"
    /\ UNCHANGED <<locals, sigs, out, err, clock, child, sent, stale>>

\* monotonic() - start reaches max_duration (start is taken at line 63)
Elapse ==
    /\ has_max
    /\ ~expired
    /\ cpc # "none"
    /\ pc \notin Final
    /\ expired' = TRUE
    /\ UNCHANGED <<pc, locals, sigs, out, err, has_max, child, hist>>

-----------------------------------------------------------------------------
(* The child process: lines 53-59, then the command's own life. *)

Terminate(st, why) ==
    /\ cpc' = "zombie"
    /\ cstatus' = st
    /\ cause' = why
    /\ pending' = {}
    /\ expiredAtEnd' = expired

\* line 56: execvp replaces the process image
ChildExecOK ==
    /\ cpc = "execvp"
    /\ cpc' = "image"
    /\ UNCHANGED <<pc, locals, sigs, out, err, clock, cstatus, cause, pending,
                   cerr, expiredAtEnd, hist>>

\* lines 56-57: execvp (or argv[0]) raises an Exception
ChildExecFails ==
    /\ cpc = "execvp"
    /\ cpc' = "except"
    /\ UNCHANGED <<pc, locals, sigs, out, err, clock, cstatus, cause, pending,
                   cerr, expiredAtEnd, hist>>

\* line 59 exiting with 1 instead of 127
ChildFailExit_Exit1 ==
    /\ cpc = "except"
    /\ cerr' = Append(cerr, "exec failed")
    /\ Terminate(StatusExited(1), "execfail")
    /\ UNCHANGED <<pc, locals, sigs, out, err, clock, hist>>

\* lines 58-59
ChildFailExit ==
    /\ cpc = "except"
    /\ cerr' = Append(cerr, "exec failed")
    /\ Terminate(StatusExited(127), "execfail")
    /\ UNCHANGED <<pc, locals, sigs, out, err, clock, hist>>

\* the command exits on its own with code c
ChildExits(c) ==
    /\ cpc = "image"
    /\ Terminate(StatusExited(c), "exit")
    /\ UNCHANGED <<pc, locals, sigs, out, err, clock, cerr, hist>>

\* something other than the supervisor kills the child with signal n
ChildKilledBy(n, core) ==
    /\ ChildAlive
    /\ Terminate(StatusSignaled(n, core), "external")
    /\ UNCHANGED <<pc, locals, sigs, out, err, clock, cerr, hist>>

\* a signal sent by the supervisor ends the child (default action, or SIGKILL)
ChildDies(s, core) ==
    /\ ChildAlive
    /\ s \in pending
    /\ Terminate(StatusSignaled(s, core), "supervisor")
    /\ UNCHANGED <<pc, locals, sigs, out, err, clock, cerr, hist>>

\* the command ignores or handles a signal sent by the supervisor and goes on
ChildIgnores(s) ==
    /\ cpc = "image"
    /\ s \in pending \ {SIGKILL}
    /\ pending' = pending \ {s}
    /\ UNCHANGED <<pc, locals, sigs, out, err, clock, cpc, cstatus, cause, cerr,
                   expiredAtEnd, hist>>

\* the command catches a signal sent by the supervisor and exits with code c
ChildCatches(s, c) ==
    /\ cpc = "image"
    /\ s \in pending \ {SIGKILL}
    /\ Terminate(StatusExited(c), "caught")
    /\ UNCHANGED <<pc, locals, sigs, out, err, clock, cerr, hist>>

CoreOf(n) == IF n \in CoreSignals THEN BOOLEAN ELSE {FALSE}

-----------------------------------------------------------------------------
Supervisor ==
    \/ PrintWait \/ HideCursor \/ Fork \/ ForkFails
    \/ InstallSigint \/ InstallSigterm \/ InstallSigquit
    \/ CheckInterrupted \/ IntSleep \/ IntWait \/ IntCheck \/ IntName
    \/ IntPrint \/ IntReturn
    \/ Poll \/ TimeoutCheck \/ ToPrint \/ ToTerm \/ ToSleep \/ ToRecheck
    \/ ToKill \/ ToWait \/ ToReturn
    \/ Glyph \/ TickSleep \/ Erase
    \/ TranslateStatus
    \/ RestoreSigint \/ RestoreSigterm \/ RestoreSigquit
    \/ ShowCursor \/ Newline

Environment ==
    \/ \E s \in Handled : DeliverHandled(s)
    \/ \E s \in Handled : DeliverDefault(s)
    \/ \E s \in Handled : DeliverOld(s)
    \/ \E s \in Handled : DeliverOldRaises(s)
    \/ Elapse

Child ==
    \/ ChildExecOK \/ ChildExecFails \/ ChildFailExit
    \/ \E c \in ExitCodes : ChildExits(c)
    \/ \E n \in ExtSignals : \E core \in CoreOf(n) : ChildKilledBy(n, core)
    \/ \E s \in pending : \E core \in CoreOf(s) : ChildDies(s, core)
    \/ \E s \in pending : ChildIgnores(s)
    \/ \E s \in pending : \E c \in ExitCodes : ChildCatches(s, c)

Next == Supervisor \/ Environment \/ Child

Spec == Init /\ [][Next]_vars

-----------------------------------------------------------------------------
(* The runs in which no signal is delivered to the supervisor, with every   *)
(* exit code and every signal number for the child.                         *)

SupervisorNoSignal ==
    \/ PrintWait \/ HideCursor \/ Fork \/ ForkFails
    \/ InstallSigint \/ InstallSigterm \/ InstallSigquit
    \/ CheckInterrupted
    \/ Poll \/ TimeoutCheck \/ ToPrint \/ ToTerm \/ ToSleep \/ ToRecheck
    \/ ToKill \/ ToWait \/ ToReturn
    \/ Glyph \/ TickSleep \/ Erase
    \/ TranslateStatus
    \/ RestoreSigint \/ RestoreSigterm \/ RestoreSigquit
    \/ ShowCursor \/ Newline

ChildAllCodes ==
    \/ ChildExecOK \/ ChildExecFails \/ ChildFailExit
    \/ \E c \in AllExitCodes : ChildExits(c)
    \/ \E n \in AllSignals : \E core \in CoreOf(n) : ChildKilledBy(n, core)
    \/ \E s \in pending : \E core \in CoreOf(s) : ChildDies(s, core)
    \/ \E s \in pending : ChildIgnores(s)
    \/ \E s \in pending : \E c \in AllExitCodes : ChildCatches(s, c)

NextNoSignal == SupervisorNoSignal \/ Elapse \/ ChildAllCodes

SpecNoSignal == Init /\ [][NextNoSignal]_vars

-----------------------------------------------------------------------------
(* Helpers of the properties. *)

Range(q) == {q[k] : k \in DOMAIN q}
Count(q, x) == Cardinality({k \in DOMAIN q : q[k] = x})

\* the timeout check fired: line 117 printed its diagnostic
TimedOut == "Process timed out." \in Range(err)

-----------------------------------------------------------------------------
(* C1: whenever spin has returned, a wait has reported the child's          *)
(* termination: the child is neither running nor an unreaped zombie.        *)
C1_ReapedOnReturn == pc = "returned" => cpc = "reaped"

\* spin returned over the timeout path with the SIGKILL escalation
C1_Witness ==
    /\ pc = "returned"
    /\ cpc = "reaped"
    /\ SIGKILL \in Range(sent)
    /\ status = StatusSignaled(SIGKILL, FALSE)

(* C2: for every exit code c in 0..255, a child that exits on its own with  *)
(* code c, in a run with no signal delivered to the supervisor and no       *)
(* timeout, makes spin return exactly c.                                    *)
C2_ExitCode ==
    \A c \in AllExitCodes :
        ( /\ pc = "returned"
          /\ cause = "exit"
          /\ cstatus = StatusExited(c)
          /\ delivered = <<>>
          /\ ~TimedOut )
        => ret = c

\* the child exited with 255 after the maximum duration had elapsed, the poll
\* saw it first, and spin returned 255
C2_Witness ==
    /\ pc = "returned"
    /\ cause = "exit"
    /\ cstatus = StatusExited(255)
    /\ has_max /\ expiredAtEnd
    /\ ~TimedOut
    /\ ret = 255

(* C3: for every signal number n, a child terminated by signal n that came  *)
(* from outside the supervisor, in a run with no signal delivered to the    *)
(* supervisor and no timeout, makes spin return 128 + n.                    *)
C3_SignalCode ==
    \A n \in AllSignals :
        ( /\ pc = "returned"
          /\ cause = "external"
          /\ cstatus \in {StatusSignaled(n, core) : core \in CoreOf(n)}
          /\ delivered = <<>>
          /\ ~TimedOut )
        => ret = 128 + n

\* the child was killed by SIGSEGV with a core dump and spin returned 139
C3_Witness ==
    /\ pc = "returned"
    /\ cause = "external"
    /\ cstatus = StatusSignaled(SIGSEGV, TRUE)
    /\ ret = 128 + SIGSEGV

(* C4: whenever SIGINT, SIGTERM or SIGQUIT is delivered to the supervisor    *)
(* while the child is running, from the moment fork() has returned, the     *)
(* same signal is sent to the child.                                        *)
C4_Forwarding ==
    [][\A s \in Handled :
          (delivered' = Append(delivered, s) /\ ChildAlive)
          => sent' = Append(sent, s)]_vars

(* C5: a signal s of SIGINT, SIGTERM, SIGQUIT delivered to the supervisor    *)
(* while the child runs makes spin return 128 + s, wherever in the loop it  *)
(* arrives.  Stated for the runs with one delivery, which sig_handler       *)
(* forwarded as the only signal sent and to which the running child reacted.*)
C5_InterruptCode ==
    \A s \in Handled :
        ( /\ pc = "returned"
          /\ delivered = <<s>>
          /\ sent = <<s>>
          /\ cause \in {"supervisor", "caught"} )
        => ret = 128 + s

(* C6, as stated: with a maximum duration that elapsed while the child was  *)
(* still running, spin returns 124 and the child is gone.  Stated for the   *)
(* runs with no signal delivered to the supervisor in which the child then  *)
(* exits on its own.                                                        *)
C6_ElapsedMeans124 ==
    ( /\ pc = "returned"
      /\ has_max
      /\ expiredAtEnd
      /\ cause = "exit"
      /\ delivered = <<>> )
    => (ret = 124 /\ cpc = "reaped")

(* C6, amended: when the timeout check of an iteration (line 116) finds the *)
(* maximum duration elapsed, a spin that returns returns 124 and the child  *)
(* has been reaped.                                                         *)
C6_TimeoutCheckMeans124 ==
    /\ TimedOut => (has_max /\ expired)
    /\ (pc = "returned" /\ TimedOut) => (ret = 124 /\ cpc = "reaped")

\* the timeout fired, SIGTERM ended the child during the grace period
C6_Witness ==
    /\ pc = "returned"
    /\ TimedOut
    /\ sent = <<SIGTERM>>
    /\ cause = "supervisor"
    /\ ret = 124
    /\ cpc = "reaped"

(* C7: on the timeout path SIGTERM is sent first; SIGKILL is sent only      *)
(* after a SIGTERM, only when the re-check after the grace period did not   *)
(* reap the child, and is followed by the blocking wait; spin returns 124   *)
(* however the child ended.                                                 *)
C7_Escalation ==
    /\ \A k \in DOMAIN sent :
          sent[k] = SIGKILL => \E j \in 1 .. (k - 1) : sent[j] = SIGTERM
    /\ pc \in {"to_sleep", "to_recheck", "to_kill", "to_wait", "to_return"}
          => SIGTERM \in Range(sent)
    /\ pc = "to_kill" => cpc # "reaped"
    /\ SIGKILL \in Range(sent) => (pc = "to_wait" \/ cpc = "reaped")
    /\ (pc = "returned" /\ TimedOut) => ret = 124

\* the child ignored SIGTERM, was ended by SIGKILL and spin returned 124
C7_Witness ==
    /\ pc = "returned"
    /\ sent = <<SIGTERM, SIGKILL>>
    /\ cause = "supervisor"
    /\ status = StatusSignaled(SIGKILL, FALSE)
    /\ ret = 124

(* C8: on every exit of spin, by return or by exception, the hide-cursor    *)
(* sequence was written exactly once and the show-cursor sequence exactly   *)
(* once, after it.  Stated for the runs with no signal delivered.           *)
C8_CursorOnce ==
    (pc \in {"returned", "raised"} /\ delivered = <<>>)
    => /\ Count(out, HideSeq) = 1
       /\ Count(out, ShowSeq) = 1
       /\ \A h, w \in DOMAIN out :
             (out[h] = HideSeq /\ out[w] = ShowSeq) => h < w

(* C9: when spin returns, the handlers of SIGINT, SIGTERM and SIGQUIT are   *)
(* those that were installed when spin was called; sig_handler is not left  *)
(* installed.                                                               *)
C9_HandlersRestored ==
    pc = "returned"
    => /\ handler = prev
       /\ \A s \in Handled : handler[s] # "sig_handler"

\* spin returned over the interrupted path with a caller's handler restored
C9_Witness ==
    /\ pc = "returned"
    /\ interrupted
    /\ prev[SIGTERM] = "callable"
    /\ handler = prev

(* C10, as stated: when exec fails in the child, spin returns 127.  Stated  *)
(* for the runs with no signal delivered to the supervisor.                 *)
C10_ExecFailureMeans127 ==
    (pc = "returned" /\ cause = "execfail" /\ delivered = <<>>) => ret = 127

(* C10, amended: when exec fails in the child, the child writes its         *)
(* diagnostic and terminates with exit code 127, running nothing else of    *)
(* spin; spin returns 127 when it returns over the normal path, that is     *)
(* unless the loop observed an interrupt or the timeout check fired before  *)
(* a poll found the child terminated.                                       *)
C10_ExecFailure ==
    /\ cause = "execfail"
          => /\ cstatus = StatusExited(127)
             /\ cerr = <<"exec failed">>
             /\ cpc \in {"zombie", "reaped"}
    /\ (pc = "returned" /\ cause = "execfail" /\ err = <<>>) => ret = 127

\* exec failed, a later poll found the child terminated, spin returned 127
C10_Witness ==
    /\ pc = "returned"
    /\ cause = "execfail"
    /\ i > 0
    /\ err = <<>>
    /\ ret = 127

-----------------------------------------------------------------------------
(* Further helpers of the properties. *)

\* the diagnostics of the interrupted path, lines 103 and 108
InterruptDiags ==
    {"Interrupted by " \o SignalName(s) \o "." : s \in Handled} \cup {"Interrupted."}

\* the statements of the interrupted path before its return, lines 89-106
IntPath == {"int_sleep", "int_wait", "int_check", "int_name", "int_print",
            "int_return"}

\* an iteration has seen interrupted set at line 87
Observed == pc \in IntPath \/ Range(err) \cap InterruptDiags # {}

GlyphCount(q) == Cardinality({k \in DOMAIN q : q[k] \in Range(spinner)})

(* C11: once an iteration has seen the interrupted flag set, no further     *)
(* glyph is written, no timeout check is made and the supervisor sends no   *)
(* SIGTERM or SIGKILL of its own (a signal it still sends is one sig_handler *)
(* forwards on a new delivery); what remains is the sleep, the blocking     *)
(* wait, the diagnostic and the return through the finally block.           *)
C11_NothingAfterInterrupt ==
    [][Observed =>
          /\ Observed'
          /\ GlyphCount(out') = GlyphCount(out)
          /\ ~TimedOut'
          /\ pc' \notin {"loop", "poll", "timeout_check", "to_print", "to_term",
                         "to_sleep", "to_recheck", "to_kill", "to_wait",
                         "to_return", "glyph", "tick_sleep", "erase", "translate"}
          /\ sent' # sent => delivered' # delivered]_vars

\* the supervisor blocks in waitpid at line 91 although the maximum duration
\* has elapsed and the child is still running
C11_Witness ==
    /\ pc = "int_wait"
    /\ has_max /\ expired
    /\ cpc = "image"
    /\ pending = {}
    /\ i < MaxTicks

-----------------------------------------------------------------------------
(* Progress.  The supervising thread takes its next step whenever it can,   *)
(* the clock of a run with a maximum duration reaches it, the child gets    *)
(* through its exec, and a signal pending for the child takes effect: the   *)
(* child dies of it, ignores it or handles it (SIGKILL always ends it).     *)
(* Nothing obliges the command to exit on its own.                          *)

ChildStarts == ChildExecOK \/ ChildExecFails \/ ChildFailExit

ChildReacts ==
    \/ \E s \in pending : \E core \in CoreOf(s) : ChildDies(s, core)
    \/ \E s \in pending : ChildIgnores(s)
    \/ \E s \in pending : \E c \in ExitCodes : ChildCatches(s, c)

Fairness ==
    /\ WF_vars(Supervisor)
    /\ WF_vars(Elapse)
    /\ WF_vars(ChildStarts)
    /\ WF_vars(ChildReacts)

SpecFair == Init /\ [][Next]_vars /\ Fairness

\* the model's bound on the iterations is reached: the loop would go on
TickBound == pc = "glyph" /\ i >= MaxTicks

(* C12: every call of spin eventually ends (up to the bound on the          *)
(* iterations), whatever the child does and whatever signals arrive.        *)
(* Stated for the runs with a maximum duration configured.                  *)
C12_Terminates == has_max => <>(pc \in Final \/ TickBound)

-----------------------------------------------------------------------------
\* the translation of lines 137-143 chose the branch of the signaled child
AbnormalReturn ==
    /\ Range(err) = {}
    /\ cpc = "reaped"
    /\ WIFSIGNALED(status)

OutEndsClean ==
    /\ Len(out) >= 2
    /\ out[Len(out) - 1] = ShowSeq
    /\ out[Len(out)] = "NL"

(* C13: when spin has returned, the terminal condition it ended on has      *)
(* written a diagnostic to the error stream (the child's own for a launch   *)
(* failure), and the output ends with the show-cursor sequence and a        *)
(* newline.                                                                 *)
C13_Diagnostics ==
    pc = "returned" =>
        /\ cause = "execfail" => cerr # <<>>
        /\ ret = 124 /\ cause # "exit" => TimedOut
        /\ AbnormalReturn => err # <<>>
        /\ OutEndsClean

-----------------------------------------------------------------------------
\* this step is a kill() by the supervisor
Sends == sent' # sent \/ stale' # stale

\* the finally block has run to its end
CleanedUp == handler = prev /\ OutEndsClean

(* C14: a kill() by the supervisor whose target has already terminated      *)
(* (a zombie, or a child already reaped) raises nothing out of spin: the    *)
(* forwarding handler leaves the interrupted statement where it was, the    *)
(* timeout path goes on to its next statement and never sends to a reaped   *)
(* child, and the run that returns afterwards returns an exit code with its *)
(* cleanup done.                                                            *)
C14_GoneChildSwallowed ==
    [][ /\ Sends /\ ~ChildAlive =>
            /\ pc' # "raised"
            /\ pc \in {"to_term", "to_kill"} => cpc # "reaped"
            /\ pc \notin {"to_term", "to_kill"} => pc' = pc /\ ret' = ret
        /\ pc' = "returned" /\ (stale' > 0 \/ Len(sent') > 0) =>
            /\ ret' \in 0..255
            /\ CleanedUp'
      ]_vars

\* a signal arrived after the child was reaped, its forwarding failed in
\* the handler, and spin returned normally
C14_Witness ==
    /\ pc = "returned"
    /\ stale > 0
    /\ ret \in 0..255
    /\ CleanedUp

-----------------------------------------------------------------------------
(* C15: with no interrupt recorded, the non-blocking wait of line 111 comes *)
(* before the timeout check: polled when it has already terminated, the     *)
(* child is reaped and the loop is left for the translation of its status,  *)
(* whether or not the maximum duration has elapsed; the run then returns    *)
(* the translated code of the child and the supervisor has sent no SIGTERM  *)
(* or SIGKILL of its own.                                                   *)
C15_PollBeforeTimeout ==
    [][ /\ pc = "poll" /\ cpc = "zombie" /\ pc' # pc =>
            /\ pc' = "translate"
            /\ cpc' = "reaped"
            /\ status' = cstatus
            /\ sent' = sent /\ err' = err
        /\ pc = "translate" /\ pc' # pc /\ pc' \notin {"killed", "raised"} =>
            /\ ret' = Translate(cstatus)
            /\ ~TimedOut
        /\ pc' = "returned" /\ Range(err') = {} =>
            /\ ret' = Translate(cstatus')
            /\ Len(sent') <= Len(delivered')
            /\ Range(sent') \subseteq Range(delivered')
      ]_vars

\* the child exited and the maximum duration elapsed before the poll; spin
\* returned the child's code
C15_Witness ==
    /\ pc = "returned"
    /\ has_max /\ expired /\ expiredAtEnd
    /\ Range(err) = {}
    /\ sent = <<>>
    /\ cause = "exit"
    /\ ret = Translate(cstatus)

-----------------------------------------------------------------------------
\* the child has been launched: fork() has returned in the parent
Launched == cpc # "none"

(* C16: the hide-cursor sequence is emitted before the wait message, and    *)
(* both before the child is launched.                                       *)
C16_HideFirst ==
    /\ "wait_text" \in Range(out) => out[1] = HideSeq
    /\ Launched => {"wait_text", HideSeq} \subseteq Range(out)

(* C16, as the code has it: the wait message is printed first, the          *)
(* hide-cursor sequence right after it, and both before the child is        *)
(* launched.                                                                *)
C16_WaitFirst ==
    /\ HideSeq \in Range(out) => out[1] = "wait_text" /\ out[2] = HideSeq
    /\ Launched => Len(out) >= 2 /\ out[1] = "wait_text" /\ out[2] = HideSeq

\* the child has just been launched, with the two outputs written
C16_Witness ==
    /\ pc = "install_sigint"
    /\ cpc = "execvp"
    /\ out = <<"wait_text", HideSeq>>

-----------------------------------------------------------------------------
\* the statements that call waitpid: lines 91, 111, 122 and 126, with the
\* statements from which control goes on to one of them
BeforeWait == {"print_wait", "hide_cursor", "fork", "install_sigint",
               "install_sigterm", "install_sigquit", "loop", "int_sleep",
               "int_wait", "poll", "timeout_check", "to_print", "to_term",
               "to_sleep", "to_recheck", "to_kill", "to_wait", "glyph",
               "tick_sleep", "erase"}

(* C17: once a wait has reported the child's termination, control is past   *)
(* every waitpid of spin and never reaches one again, whatever signals are  *)
(* delivered in between: the child is reaped once.                          *)
C17_ReapedOnce ==
    [][ /\ cpc = "reaped" => pc \notin BeforeWait /\ pc' \notin BeforeWait
        /\ cpc = "reaped" => cpc' = "reaped"
        /\ cpc' = "reaped" /\ cpc # "reaped" =>
               /\ pc \in {"int_wait", "poll", "to_recheck", "to_wait"}
               /\ cpc = "zombie"
      ]_vars

\* two signals were delivered, the second one after the blocking wait of
\* line 91 had reaped the child
C17_Witness ==
    /\ cpc = "reaped"
    /\ pc = "int_check"
    /\ Len(delivered) = 2
    /\ stale = 1

-----------------------------------------------------------------------------
(* C18: the supervisor never calls kill() on the pid after the child has    *)
(* been reaped, also when SIGINT, SIGTERM or SIGQUIT arrives between the    *)
(* reaping wait and the restoration of the previous handlers.               *)
C18_NoSendAfterReap == stale = 0

-----------------------------------------------------------------------------
\* this step is a run of sig_handler
HandlerRuns ==
    /\ delivered' # delivered
    /\ handler[delivered'[Len(delivered')]] = "sig_handler"

(* C19: the interrupted flag is never set without a recorded signal number, *)
(* so the fallback of lines 107-109 (the message "Interrupted." and the     *)
(* value 130 for no number) is never taken; every run of the handler        *)
(* records the number of the signal it runs for and nothing else writes     *)
(* it, so the number the interrupted path returns as 128 + n is that of the *)
(* most recent run of the handler.                                          *)
C19_NumberRecorded ==
    [][ /\ interrupted' => signal_received' \in Handled
        /\ ~interrupted' => signal_received' = None
        /\ "Interrupted." \notin Range(err')
        /\ pc = "int_check" /\ pc' # pc /\ pc' \notin {"killed", "raised"} =>
               pc' = "int_name"
        /\ HandlerRuns =>
               /\ interrupted'
               /\ signal_received' = delivered'[Len(delivered')]
        /\ ~HandlerRuns =>
               /\ interrupted' = interrupted
               /\ signal_received' = signal_received
        /\ pc = "int_return" /\ pc' = "restore_sigint" =>
               ret' = 128 + signal_received
      ]_vars

\* SIGINT then SIGTERM were delivered and forwarded; spin returned 128 + 15
C19_Witness ==
    /\ pc = "returned"
    /\ delivered = <<SIGINT, SIGTERM>>
    /\ sent = <<SIGINT, SIGTERM>>
    /\ signal_received = SIGTERM
    /\ ret = 128 + SIGTERM

-----------------------------------------------------------------------------
(* The runs with no signal delivered to the supervisor, with progress.      *)

FairnessNoSignal ==
    /\ WF_vars(SupervisorNoSignal)
    /\ WF_vars(Elapse)
    /\ WF_vars(ChildStarts)
    /\ WF_vars(ChildReacts)

SpecNoSignalFair == Init /\ [][NextNoSignal]_vars /\ FairnessNoSignal

(* C20: with a maximum duration configured and no signal delivered to the   *)
(* supervisor, spin eventually ends whatever the child does (up to the      *)
(* bound on the iterations): it returns, or it leaves by the exception of   *)
(* a failed fork or of restoring a handler that was not installed from      *)
(* Python.                                                                  *)
C20_TimeoutTerminates ==
    has_max =>
        <>( \/ pc = "returned"
            \/ pc = "raised" /\ (cpc = "none" \/ "NotPython" \in Range(prev))
            \/ TickBound )

\* the child ignored SIGTERM and never exited; SIGKILL ended it, the blocking
\* wait reaped it and spin returned
C20_Witness ==
    /\ pc = "returned"
    /\ has_max /\ expired
    /\ delivered = <<>>
    /\ sent = <<SIGTERM, SIGKILL>>
    /\ cstatus = StatusSignaled(SIGKILL, FALSE)
    /\ cpc = "reaped"

====
